---- MODULE Spec2Model ----
(***************************************************************************)
(* Model of the alice middleware chain (src/chain.go): chains of          *)
(* constructors and endwares, their composition operations, the           *)
(* resolution of a chain into a handler and the serving of a request by   *)
(* the resolved handler.                                                   *)
(*                                                                         *)
(* Go slices are modelled as they are: a slice is a header (ptr, len,     *)
(* cap) into a backing array of the heap, append writes in place when the *)
(* capacity allows it and allocates otherwise, and a variadic call        *)
(* f(s...) passes the header of s, not a copy.  Handlers are objects of a *)
(* handler table and are compared by identity (their index).              *)
(***************************************************************************)
EXTENDS Integers, Sequences, FiniteSets, TLC

\* Number of API calls (New, Append, Extend, After, AppendEndware, Then,
\* ThenFunc) one behaviour makes.
MaxOps == 3

\* Extra capacity the runtime may give to an array that append allocates.
GrowSlack == {0, 1}

\* The argument lists the callers pass.  "stop" is a middleware that does
\* not call its inner handler, the other constructors are tagMiddleware.
ConsArgs == {<<>>, <<"t1", "t2">>, <<"t3">>, <<"stop">>}
EndArgs == {<<>>, <<"e1">>, <<"e2", "e1">>}

\* The constructors callers pass to NewContextualized and to the Append of a
\* ContextualizedChain or of a bridge, the contexts a request is served
\* with, and the transformers callers pass to Contextualize.
CtxArgs == {<<>>, <<"ct1", "ct2">>, <<"ct3">>}
Contexts == {"bg", "todo"}
Transformers == {"c2c", "c2d"}

\* The goroutines that call methods of one Chain at the same time.
Threads == {1, 2}

\* Handler values: the absent handler and the handlers that exist before any
\* chain is resolved.
Nil == 0
DefaultServeMux == 1
testApp == 2
authHandler == 3
ctxTestApp == 4

VARIABLES
    heap,       \* backing arrays: heap[a] is the array at address a
    slack,      \* the extra capacity this build's append allocates
    chains,     \* the Chain values created so far
    created,    \* history: how each chain was created and what it held then
    handlers,   \* handler objects, indexed by identity
    resolved,   \* history: the calls of Then/ThenFunc and their results
    served,     \* index in resolved of the handler that served the last request
    trace,      \* events of the last request served
    cchains,    \* the ContextualizedChain values created so far
    ccreated,   \* history: how each ContextualizedChain was created
    cresolved,  \* history: the calls of ContextualizedChain.Then/ThenFunc
    cserved,    \* the cresolved index and the context of the last request
    ctrace,     \* events of the last request a contextualized handler served
    bridges,    \* the toContextualizedChain values created so far
    bcreated,   \* history: how each bridge was created and what it held then
    bresolved,  \* history: the calls of toContextualizedChain.Then/ThenFunc
    bserved,    \* index in bresolved of the handler that served the last request
    btrace,     \* events of the last request a bridge's handler served
    threads,    \* the goroutines calling methods of one shared Chain
    written,    \* the cells of shared arrays that a goroutine's step wrote
    start       \* the shared arrays before any goroutine started

cvars == <<cchains, ccreated, cresolved, cserved, ctrace>>
bvars == <<bridges, bcreated, bresolved, bserved, btrace>>

tvars == <<threads, written, start>>

vars == <<heap, slack, chains, created, handlers, resolved, served, trace,
          cvars, bvars, tvars>>

----------------------------------------------------------------------------
\* Go slices

NilSlice == [ptr |-> 0, len |-> 0, cap |-> 0]

Contents(hp, s) == IF s.len = 0 THEN <<>> ELSE SubSeq(hp[s.ptr], 1, s.len)

\* The cells a slice may read or write: its backing array up to its capacity.
Storage(s) == {<<s.ptr, k>> : k \in 1..s.cap}

\* make([]T, 0, n) that allocates room for one element more.
MakeRoomy(hp, n) ==
    [heap |-> Append(hp, [k \in 1..(n + 1) |-> ""]),
     s |-> [ptr |-> Len(hp) + 1, len |-> 0, cap |-> n + 1]]

\* make([]T, 0, n)
Make(hp, n) ==
    [heap |-> Append(hp, [k \in 1..n |-> ""]),
     s |-> [ptr |-> Len(hp) + 1, len |-> 0, cap |-> n]]

\* A slice literal or the implicit slice of a variadic call f(v1, ..., vn);
\* with no arguments the callee receives a nil slice.
Literal(hp, vals) ==
    IF Len(vals) = 0
    THEN [heap |-> hp, s |-> NilSlice]
    ELSE [heap |-> Append(hp, vals),
          s |-> [ptr |-> Len(hp) + 1, len |-> Len(vals), cap |-> Len(vals)]]

\* append(s, vals...): in place when the capacity allows it, else into a
\* new array that holds the old elements and the new ones.
GoAppend(hp, s, vals) ==
    LET n == Len(vals) IN
    IF n = 0 THEN [heap |-> hp, s |-> s]
    ELSE IF s.len + n <= s.cap
    THEN [heap |-> [hp EXCEPT ![s.ptr] =
                      [k \in 1..s.cap |->
                          IF k > s.len /\ k <= s.len + n
                          THEN vals[k - s.len] ELSE @[k]]],
          s |-> [s EXCEPT !.len = s.len + n]]
    ELSE LET c == s.len + n + slack
             old == Contents(hp, s)
         IN [heap |-> Append(hp, [k \in 1..c |->
                          IF k <= s.len THEN old[k]
                          ELSE IF k <= s.len + n THEN vals[k - s.len]
                          ELSE ""]),
             s |-> [ptr |-> Len(hp) + 1, len |-> s.len + n, cap |-> c]]

\* The cells of the array of s that append(s, v1, ..., vn) writes when it
\* appends in place.
AppendWrites(s, n) ==
    IF n > 0 /\ s.len + n <= s.cap
    THEN {<<s.ptr, k>> : k \in (s.len + 1)..(s.len + n)}
    ELSE {}

\* make([]T, n): n zero values.
MakeLen(hp, n) ==
    [heap |-> Append(hp, [k \in 1..n |-> ""]),
     s |-> [ptr |-> Len(hp) + 1, len |-> n, cap |-> n]]

\* copy(dst[from:], src): as many elements as both hold.
GoCopy(hp, dst, from, src) ==
    LET n == IF dst.len - from < src.len THEN dst.len - from ELSE src.len IN
    IF n <= 0 THEN hp
    ELSE [hp EXCEPT ![dst.ptr] =
             [k \in 1..dst.cap |->
                 IF k > from /\ k <= from + n THEN hp[src.ptr][k - from] ELSE @[k]]]

----------------------------------------------------------------------------
\* Chain operations (src/chain.go).  Each takes the heap and returns the
\* heap after the call and the Chain it returns.

\* New that keeps the slice it is given.
NewNoCopy(hp, constructors) ==
    [heap |-> hp, c |-> [constructors |-> constructors, endwares |-> NilSlice]]

New(hp, constructors) ==
    LET a == GoAppend(hp, NilSlice, Contents(hp, constructors))
    IN [heap |-> a.heap, c |-> [constructors |-> a.s, endwares |-> NilSlice]]

\* After that appends to the receiver's endwares instead of a fresh array.
AfterInPlace(hp, c, endwares) ==
    LET a == GoAppend(hp, c.endwares, Contents(hp, endwares))
        newC == New(a.heap, c.constructors)
    IN [heap |-> newC.heap, c |-> [newC.c EXCEPT !.endwares = a.s]]

After(hp, c, endwares) ==
    LET m == Make(hp, c.endwares.len + endwares.len)
        a1 == GoAppend(m.heap, m.s, Contents(m.heap, c.endwares))
        a2 == GoAppend(a1.heap, a1.s, Contents(a1.heap, endwares))
        newC == New(a2.heap, c.constructors)
    IN [heap |-> newC.heap, c |-> [newC.c EXCEPT !.endwares = a2.s]]

\* AppendEndware that calls After on the receiver itself.
AppendEndwareTwice(hp, c, endwares) ==
    LET a == GoAppend(hp, c.endwares, Contents(hp, endwares))
    IN After(a.heap, c, a.s)

AppendEndware(hp, c, endwares) ==
    LET n == New(hp, c.constructors)
        a == GoAppend(n.heap, c.endwares, Contents(n.heap, endwares))
    IN After(a.heap, n.c, a.s)

\* Append that does not carry the receiver's endwares over.
ChainAppendNoEndwares(hp, c, constructors) ==
    LET m == Make(hp, c.constructors.len + constructors.len)
        a1 == GoAppend(m.heap, m.s, Contents(m.heap, c.constructors))
        a2 == GoAppend(a1.heap, a1.s, Contents(a1.heap, constructors))
    IN New(a2.heap, a2.s)

ChainAppend(hp, c, constructors) ==
    LET m == Make(hp, c.constructors.len + constructors.len)
        a1 == GoAppend(m.heap, m.s, Contents(m.heap, c.constructors))
        a2 == GoAppend(a1.heap, a1.s, Contents(a1.heap, constructors))
        n == New(a2.heap, a2.s)
    IN AppendEndware(n.heap, n.c, c.endwares)

\* Extend that appends the constructors only.
ExtendConstructorsOnly(hp, c, chain) ==
    ChainAppend(hp, c, chain.constructors)

\* Extend that appends the receiver's endwares, not the other chain's.
ExtendReceiverEndwares(hp, c, chain) ==
    LET a == ChainAppend(hp, c, chain.constructors)
    IN AppendEndware(a.heap, a.c, c.endwares)

Extend(hp, c, chain) ==
    LET a == ChainAppend(hp, c, chain.constructors)
    IN AppendEndware(a.heap, a.c, chain.endwares)

----------------------------------------------------------------------------
\* Resolution (src/chain.go, Then and ThenFunc).

\* A constructor of the callers: tagMiddleware(tag) wraps h in a new handler.
Constructor(hs, tag, h) ==
    [handlers |-> Append(hs, [kind |-> "mw", tag |-> tag, handler |-> h,
                              endwares |-> NilSlice]),
     h |-> Len(hs) + 1]

\* Then's loop applying the constructors first-registered first.
RECURSIVE ThenLoopForward(_, _, _, _)
ThenLoopForward(hp, c, st, i) ==
    IF i >= c.constructors.len THEN st
    ELSE LET k == hp[c.constructors.ptr][i + 1]
             w == Constructor(st.handlers, k, st.h)
         IN ThenLoopForward(hp, c, [handlers |-> w.handlers, h |-> w.h,
                                    calls |-> Append(st.calls, k)], i + 1)

\* The loop of Then: iteration i applies constructors[len-1-i].
RECURSIVE ThenLoop(_, _, _, _)
ThenLoop(hp, c, st, i) ==
    IF i >= c.constructors.len THEN st
    ELSE LET k == hp[c.constructors.ptr][c.constructors.len - 1 - i + 1]
             w == Constructor(st.handlers, k, st.h)
         IN ThenLoop(hp, c, [handlers |-> w.handlers, h |-> w.h,
                             calls |-> Append(st.calls, k)], i + 1)

\* Then that wraps the handler in an endwareHandler whatever the endwares.
ThenAlwaysWraps(hp, hs, c, h) ==
    LET h1 == IF h = Nil THEN DefaultServeMux ELSE h
        hs2 == Append(hs, [kind |-> "endwareHandler", tag |-> "",
                           handler |-> h1, endwares |-> c.endwares])
    IN ThenLoop(hp, c, [handlers |-> hs2, h |-> Len(hs2), calls |-> <<>>], 0)

\* Then that does not replace an absent handler.
ThenKeepsNil(hp, hs, c, h) ==
    LET wrap == c.endwares.len > 0
        hs2 == IF wrap
               THEN Append(hs, [kind |-> "endwareHandler", tag |-> "",
                                handler |-> h, endwares |-> c.endwares])
               ELSE hs
        h2 == IF wrap THEN Len(hs2) ELSE h
    IN ThenLoop(hp, c, [handlers |-> hs2, h |-> h2, calls |-> <<>>], 0)

\* Then that returns the handler of an earlier resolution of the same chain.
ThenCached(hp, hs, c, h) ==
    IF \E r \in 1..Len(resolved) : chains[resolved[r].chain] = c
    THEN [handlers |-> hs,
          h |-> resolved[CHOOSE r \in 1..Len(resolved) :
                             chains[resolved[r].chain] = c].res,
          calls |-> <<>>]
    ELSE LET h1 == IF h = Nil THEN DefaultServeMux ELSE h
         IN ThenLoop(hp, c, [handlers |-> hs, h |-> h1, calls |-> <<>>], 0)

\* Then that wraps the composed handler, not the terminal one, in the
\* endwareHandler.
ThenEndwaresOutside(hp, hs, c, h) ==
    LET h1 == IF h = Nil THEN DefaultServeMux ELSE h
        st == ThenLoop(hp, c, [handlers |-> hs, h |-> h1, calls |-> <<>>], 0)
    IN IF c.endwares.len > 0
       THEN [handlers |-> Append(st.handlers,
                             [kind |-> "endwareHandler", tag |-> "",
                              handler |-> st.h, endwares |-> c.endwares]),
             h |-> Len(st.handlers) + 1, calls |-> st.calls]
       ELSE st

\* Then that never creates an endwareHandler.
ThenNeverWraps(hp, hs, c, h) ==
    LET h1 == IF h = Nil THEN DefaultServeMux ELSE h
    IN ThenLoop(hp, c, [handlers |-> hs, h |-> h1, calls |-> <<>>], 0)

\* Then whose endwareHandler is given no endwares.
ThenAdapterWithoutEndwares(hp, hs, c, h) ==
    LET h1 == IF h = Nil THEN DefaultServeMux ELSE h
        wrap == c.endwares.len > 0
        hs2 == IF wrap
               THEN Append(hs, [kind |-> "endwareHandler", tag |-> "",
                                handler |-> h1, endwares |-> NilSlice])
               ELSE hs
        h2 == IF wrap THEN Len(hs2) ELSE h1
    IN ThenLoop(hp, c, [handlers |-> hs2, h |-> h2, calls |-> <<>>], 0)

Then(hp, hs, c, h) ==
    LET h1 == IF h = Nil THEN DefaultServeMux ELSE h
        wrap == c.endwares.len > 0
        hs2 == IF wrap
               THEN Append(hs, [kind |-> "endwareHandler", tag |-> "",
                                handler |-> h1, endwares |-> c.endwares])
               ELSE hs
        h2 == IF wrap THEN Len(hs2) ELSE h1
    IN ThenLoop(hp, c, [handlers |-> hs2, h |-> h2, calls |-> <<>>], 0)

ThenFunc(hp, hs, c, fn) ==
    IF fn = Nil THEN Then(hp, hs, c, Nil) ELSE Then(hp, hs, c, fn)

----------------------------------------------------------------------------
\* ContextualizedChain (src/context_chain.go).

NewContextualized(hp, constructors) ==
    LET a == GoAppend(hp, NilSlice, Contents(hp, constructors))
    IN [heap |-> a.heap, c |-> [constructors |-> a.s]]

CtxAppend(hp, c, constructors) ==
    LET m == MakeLen(hp, c.constructors.len + constructors.len)
        h1 == GoCopy(m.heap, m.s, 0, c.constructors)
        h2 == GoCopy(h1, m.s, c.constructors.len, constructors)
    IN NewContextualized(h2, m.s)

\* A contextualized constructor of the callers: ctxTagMiddleware(tag).
CtxConstructor(hs, tag, h) ==
    [handlers |-> Append(hs, [kind |-> "cmw", tag |-> tag, handler |-> h,
                              endwares |-> NilSlice]),
     h |-> Len(hs) + 1]

\* The loop with i running upwards from 0 to its first value.
RECURSIVE CtxThenLoopForward(_, _, _, _)
CtxThenLoopForward(hp, c, st, i) ==
    IF i < 0 THEN st
    ELSE LET k == hp[c.constructors.ptr][c.constructors.len - 1 - i + 1]
             w == CtxConstructor(st.handlers, k, st.h)
         IN CtxThenLoopForward(hp, c, [handlers |-> w.handlers, h |-> w.h,
                                       calls |-> Append(st.calls, k)], i - 1)

\* The loop of Then: for i := len-1; i >= 0; i-- applies constructors[i].
RECURSIVE CtxThenLoop(_, _, _, _)
CtxThenLoop(hp, c, st, i) ==
    IF i < 0 THEN st
    ELSE LET k == hp[c.constructors.ptr][i + 1]
             w == CtxConstructor(st.handlers, k, st.h)
         IN CtxThenLoop(hp, c, [handlers |-> w.handlers, h |-> w.h,
                                calls |-> Append(st.calls, k)], i - 1)

\* For an absent handler Then makes a new function that forwards to
\* http.DefaultServeMux.
CtxThen(hp, hs, c, fn) ==
    LET hs2 == IF fn = Nil
               THEN Append(hs, [kind |-> "cdefault", tag |-> "",
                                handler |-> DefaultServeMux, endwares |-> NilSlice])
               ELSE hs
        f2 == IF fn = Nil THEN Len(hs2) ELSE fn
    IN CtxThenLoop(hp, c, [handlers |-> hs2, h |-> f2, calls |-> <<>>],
                   c.constructors.len - 1)

CtxThenFunc(hp, hs, c, fn) ==
    IF fn = Nil THEN CtxThen(hp, hs, c, Nil) ELSE CtxThen(hp, hs, c, fn)

----------------------------------------------------------------------------
\* The bridge from a Chain to a ContextualizedChain (src/chain_to_context.go).

\* Chain.copy: a chain holding a copy of the receiver's constructors.
ChainCopy(hp, c) == New(hp, c.constructors)

Contextualize(hp, c, transformer) ==
    LET k == ChainCopy(hp, c)
    IN [heap |-> k.heap,
        b |-> [chain |-> k.c, transformer |-> transformer,
               cchain |-> [constructors |-> NilSlice]]]

\* Append that starts the context segment anew from its arguments.
BridgeAppendReplaces(hp, b, constructors) ==
    LET k == ChainCopy(hp, b.chain)
        a == NewContextualized(k.heap, constructors)
    IN [heap |-> a.heap,
        b |-> [chain |-> k.c, transformer |-> b.transformer, cchain |-> a.c]]

BridgeAppend(hp, b, constructors) ==
    LET k == ChainCopy(hp, b.chain)
        a == CtxAppend(k.heap, b.cchain, constructors)
    IN [heap |-> a.heap,
        b |-> [chain |-> k.c, transformer |-> b.transformer, cchain |-> a.c]]

\* A transformer of the callers: c2c(next) returns a new handler that calls
\* next with the background context.
Transformer(hs, t, next) ==
    [handlers |-> Append(hs, [kind |-> "seam", tag |-> t, handler |-> next,
                              endwares |-> NilSlice]),
     h |-> Len(hs) + 1]

\* Then that composes the non-context segment first-registered innermost.
BridgeThenForward(hp, hs, b, cfinal) ==
    LET c1 == CtxThen(hp, hs, b.cchain, cfinal)
        f == Transformer(c1.handlers, b.transformer, c1.h)
        c2 == ThenLoopForward(hp, b.chain, [handlers |-> f.handlers, h |-> f.h,
                                            calls |-> <<>>], 0)
    IN [handlers |-> c2.handlers, h |-> c2.h, seam |-> f.h,
        calls |-> c1.calls \o <<b.transformer>> \o c2.calls]

\* Then that keeps the transformer's handler for the bridge's later
\* resolutions.
BridgeThenCached(hp, hs, b, cfinal) ==
    IF \E r \in 1..Len(bresolved) : bridges[bresolved[r].bridge] = b
    THEN LET r == CHOOSE r \in 1..Len(bresolved) : bridges[bresolved[r].bridge] = b
             c2 == Then(hp, hs, b.chain, bresolved[r].seam)
         IN [handlers |-> c2.handlers, h |-> c2.h, seam |-> bresolved[r].seam,
             calls |-> c2.calls]
    ELSE LET c1 == CtxThen(hp, hs, b.cchain, cfinal)
             f == Transformer(c1.handlers, b.transformer, c1.h)
             c2 == Then(hp, f.handlers, b.chain, f.h)
         IN [handlers |-> c2.handlers, h |-> c2.h, seam |-> f.h,
             calls |-> c1.calls \o <<b.transformer>> \o c2.calls]

\* calls lists what the resolution invoked, in order; seam is the handler
\* the transformer returned.
BridgeThen(hp, hs, b, cfinal) ==
    LET c1 == CtxThen(hp, hs, b.cchain, cfinal)
        f == Transformer(c1.handlers, b.transformer, c1.h)
        c2 == Then(hp, f.handlers, b.chain, f.h)
    IN [handlers |-> c2.handlers, h |-> c2.h, seam |-> f.h,
        calls |-> c1.calls \o <<b.transformer>> \o c2.calls]

BridgeThenFunc(hp, hs, b, fn) ==
    IF fn = Nil THEN BridgeThen(hp, hs, b, Nil) ELSE BridgeThen(hp, hs, b, fn)

----------------------------------------------------------------------------
\* Serving a request: the events of h.ServeHTTP(w, r), in order.  A handler
\* is entered ("in") when its ServeHTTP is called and left ("out") when it
\* returns.

\* The endware loop running the endwares last-registered first.
RECURSIVE EndwaresServeBackward(_, _, _)
EndwaresServeBackward(hp, s, k) ==
    IF k > s.len THEN <<>>
    ELSE EndwaresServeBackward(hp, s, k + 1)
         \o <<<<"in", "endware", hp[s.ptr][k]>>, <<"out", "endware", hp[s.ptr][k]>>>>

\* endwareHandler.ServeHTTP, lines 44-46: every endware in slice order.
RECURSIVE EndwaresServe(_, _, _)
EndwaresServe(hp, s, k) ==
    IF k > s.len THEN <<>>
    ELSE <<<<"in", "endware", hp[s.ptr][k]>>, <<"out", "endware", hp[s.ptr][k]>>>>
         \o EndwaresServe(hp, s, k + 1)

\* ServeHTTP with an endwareHandler that runs its endwares before its handler.
RECURSIVE ServeHTTPEndwaresFirst(_, _, _)
ServeHTTPEndwaresFirst(hp, hs, h) ==
    LET n == IF h = Nil THEN [kind |-> "nil"] ELSE hs[h] IN
    CASE n.kind = "nil" -> <<<<"panic", "nil", "">>>>
      [] n.kind = "term" ->
            <<<<"in", "term", n.tag>>, <<"out", "term", n.tag>>>>
      [] n.kind = "mw" ->
            <<<<"in", "mw", n.tag>>>>
            \o (IF n.tag = "stop" THEN <<>>
                ELSE ServeHTTPEndwaresFirst(hp, hs, n.handler))
            \o <<<<"out", "mw", n.tag>>>>
      [] n.kind = "endwareHandler" ->
            EndwaresServe(hp, n.endwares, 1)
            \o ServeHTTPEndwaresFirst(hp, hs, n.handler)

\* ServeHTTP(ctx, w, r) of a contextualized handler: the events carry the
\* context the handler was called with.
RECURSIVE ServeHTTP(_, _, _)
RECURSIVE ServeHTTPC(_, _, _, _)
ServeHTTPC(hp, hs, h, ctx) ==
    LET n == IF h = Nil THEN [kind |-> "nil"] ELSE hs[h] IN
    CASE n.kind = "nil" -> <<<<"panic", "nil", "">>>>
      [] n.kind = "cterm" ->
            <<<<"in", "cterm", n.tag, ctx>>, <<"out", "cterm", n.tag, ctx>>>>
      [] n.kind = "cmw" ->
            <<<<"in", "cmw", n.tag, ctx>>>>
            \o ServeHTTPC(hp, hs, n.handler, ctx)
            \o <<<<"out", "cmw", n.tag, ctx>>>>
      [] n.kind = "cdefault" ->
            <<<<"in", "cdefault", n.tag, ctx>>>>
            \o ServeHTTP(hp, hs, n.handler)
            \o <<<<"out", "cdefault", n.tag, ctx>>>>

ServeHTTP(hp, hs, h) ==
    LET n == IF h = Nil THEN [kind |-> "nil"] ELSE hs[h] IN
    CASE n.kind = "nil" -> <<<<"panic", "nil", "">>>>
      [] n.kind = "term" ->
            <<<<"in", "term", n.tag>>, <<"out", "term", n.tag>>>>
      [] n.kind = "mw" ->
            <<<<"in", "mw", n.tag>>>>
            \o (IF n.tag = "stop" THEN <<>> ELSE ServeHTTP(hp, hs, n.handler))
            \o <<<<"out", "mw", n.tag>>>>
      [] n.kind = "endwareHandler" ->
            ServeHTTP(hp, hs, n.handler) \o EndwaresServe(hp, n.endwares, 1)
      [] n.kind = "seam" ->
            <<<<"in", "seam", n.tag>>>>
            \o ServeHTTPC(hp, hs, n.handler, "bg")
            \o <<<<"out", "seam", n.tag>>>>

----------------------------------------------------------------------------
\* What a chain holds.

Cons(c) == Contents(heap, c.constructors)
Ends(c) == Contents(heap, c.endwares)

\* argv is the slice the caller passed (the nil slice when it passed none).
Origin(op, recv, other, args, argv, hp, c) ==
    [op |-> op, recv |-> recv, other |-> other, args |-> args, argv |-> argv,
     cons |-> Contents(hp, c.constructors), ends |-> Contents(hp, c.endwares)]

\* The calls made so far on chains and on bridges.
Calls == Len(chains) + Len(resolved) + Len(bridges) + Len(bresolved)

Budget == Calls < MaxOps

\* A goroutine that has not called anything yet.
NilChain == [constructors |-> NilSlice, endwares |-> NilSlice]
Idle ==
    [pc |-> "idle", op |-> [name |-> "", x |-> <<>>, h |-> Nil], todo |-> <<>>,
     c |-> NilChain, d |-> NilChain, r |-> NilSlice, h |-> Nil, i |-> 0,
     mem |-> <<>>, hs |-> <<>>]

\* What every specification starts with, whatever chains exist at the start.
InitRest ==
    /\ handlers = <<[kind |-> "term", tag |-> "mux", handler |-> Nil, endwares |-> NilSlice],
                    [kind |-> "term", tag |-> "app", handler |-> Nil, endwares |-> NilSlice],
                    [kind |-> "term", tag |-> "auth", handler |-> Nil, endwares |-> NilSlice],
                    [kind |-> "cterm", tag |-> "app", handler |-> Nil, endwares |-> NilSlice]>>
    /\ resolved = <<>>
    /\ served = 0
    /\ trace = <<>>
    /\ cchains = <<>>
    /\ ccreated = <<>>
    /\ cresolved = <<>>
    /\ cserved = [r |-> 0, ctx |-> ""]
    /\ ctrace = <<>>
    /\ bridges = <<>>
    /\ bcreated = <<>>
    /\ bresolved = <<>>
    /\ bserved = 0
    /\ btrace = <<>>
    /\ threads = [t \in Threads |-> Idle]
    /\ written = {}

Init ==
    /\ heap = <<>>
    /\ slack \in GrowSlack
    /\ chains = <<>>
    /\ created = <<>>
    /\ start = <<>>
    /\ InitRest

\* Building that also composes the new chain around a handler.
BuiltInvoking(r, op, recv, other, args, argv) ==
    /\ heap' = r.heap
    /\ chains' = Append(chains, r.c)
    /\ created' = Append(created, Origin(op, recv, other, args, argv, r.heap, r.c))
    /\ handlers' = Then(r.heap, handlers, r.c, testApp).handlers
    /\ UNCHANGED <<slack, resolved, served, trace, cvars, bvars, tvars>>

Built(r, op, recv, other, args, argv) ==
    /\ heap' = r.heap
    /\ chains' = Append(chains, r.c)
    /\ created' = Append(created, Origin(op, recv, other, args, argv, r.heap, r.c))
    /\ UNCHANGED <<slack, handlers, resolved, served, trace, cvars, bvars, tvars>>

DoNew ==
    \E x \in ConsArgs :
        /\ Budget
        /\ LET lit == Literal(heap, x)
           IN Built(New(lit.heap, lit.s), "New", 0, 0, x, lit.s)

DoAppend ==
    \E i \in 1..Len(chains), x \in ConsArgs :
        /\ Budget
        /\ LET lit == Literal(heap, x)
           IN Built(ChainAppend(lit.heap, chains[i], lit.s), "Append", i, 0, x, lit.s)

DoExtend ==
    \E i \in 1..Len(chains), j \in 1..Len(chains) :
        /\ Budget
        /\ Built(Extend(heap, chains[i], chains[j]), "Extend", i, j, <<>>, NilSlice)

DoAfter ==
    \E i \in 1..Len(chains), e \in EndArgs :
        /\ Budget
        /\ LET lit == Literal(heap, e)
           IN Built(After(lit.heap, chains[i], lit.s), "After", i, 0, e, lit.s)

DoAppendEndware ==
    \E i \in 1..Len(chains), e \in EndArgs :
        /\ Budget
        /\ LET lit == Literal(heap, e)
           IN Built(AppendEndware(lit.heap, chains[i], lit.s), "AppendEndware", i, 0, e, lit.s)

Resolved(r, i, h, func) ==
    /\ handlers' = r.handlers
    /\ resolved' = Append(resolved,
                     [chain |-> i, arg |-> h, func |-> func, res |-> r.h,
                      calls |-> r.calls, first |-> Len(handlers) + 1])
    /\ UNCHANGED <<heap, slack, chains, created, served, trace, cvars, bvars, tvars>>

DoThen ==
    \E i \in 1..Len(chains), h \in {Nil, DefaultServeMux, testApp, authHandler} :
        /\ Budget
        /\ Resolved(Then(heap, handlers, chains[i], h), i, h, FALSE)

DoThenFunc ==
    \E i \in 1..Len(chains), fn \in {Nil, testApp} :
        /\ Budget
        /\ Resolved(ThenFunc(heap, handlers, chains[i], fn), i, fn, TRUE)

\* One request served by a handler that Then or ThenFunc returned.
Serve ==
    \E r \in 1..Len(resolved) :
        /\ served' = r
        /\ trace' = ServeHTTP(heap, handlers, resolved[r].res)
        /\ UNCHANGED <<heap, slack, chains, created, handlers, resolved, cvars, bvars, tvars>>

Next ==
    \/ DoNew
    \/ DoAppend
    \/ DoExtend
    \/ DoAfter
    \/ DoAppendEndware
    \/ DoThen
    \/ DoThenFunc
    \/ Serve

Spec == Init /\ [][Next]_vars

----------------------------------------------------------------------------
\* The caller of New keeps the slice it passed and may write to it:
\*     slice := []Constructor{c1, c2}; chain := New(slice...); slice[0] = c
CallerWrites ==
    \E k \in 1..Len(chains), p \in 1..2, v \in {"t4"} :
        /\ created[k].op = "New"
        /\ p <= created[k].argv.len
        /\ heap' = [heap EXCEPT ![created[k].argv.ptr][p] = v]
        /\ UNCHANGED <<slack, chains, created, handlers, resolved, served, trace, cvars, bvars, tvars>>

NextCaller ==
    \/ DoNew
    \/ CallerWrites
    \/ DoThen

SpecCaller == Init /\ [][NextCaller]_vars

----------------------------------------------------------------------------
\* Calls on ContextualizedChain values.

CCons(c) == Contents(heap, c.constructors)

CtxBudget == Len(cchains) + Len(cresolved) < MaxOps

CtxBuilt(r, op, recv, args, argv) ==
    /\ heap' = r.heap
    /\ cchains' = Append(cchains, r.c)
    /\ ccreated' = Append(ccreated,
                      [op |-> op, recv |-> recv, args |-> args, argv |-> argv,
                       cons |-> Contents(r.heap, r.c.constructors)])
    /\ UNCHANGED <<slack, chains, created, handlers, resolved, served, trace,
                   cresolved, cserved, ctrace, bvars, tvars>>

DoNewContextualized ==
    \E x \in CtxArgs :
        /\ CtxBudget
        /\ LET lit == Literal(heap, x)
           IN CtxBuilt(NewContextualized(lit.heap, lit.s), "NewContextualized", 0, x, lit.s)

DoCtxAppend ==
    \E i \in 1..Len(cchains), x \in CtxArgs :
        /\ CtxBudget
        /\ LET lit == Literal(heap, x)
           IN CtxBuilt(CtxAppend(lit.heap, cchains[i], lit.s), "Append", i, x, lit.s)

CtxResolved(r, i, fn, func) ==
    /\ handlers' = r.handlers
    /\ cresolved' = Append(cresolved,
                      [chain |-> i, arg |-> fn, func |-> func, res |-> r.h,
                       calls |-> r.calls, first |-> Len(handlers) + 1])
    /\ UNCHANGED <<heap, slack, chains, created, resolved, served, trace,
                   cchains, ccreated, cserved, ctrace, bvars, tvars>>

DoCtxThen ==
    \E i \in 1..Len(cchains), fn \in {Nil, ctxTestApp} :
        /\ CtxBudget
        /\ CtxResolved(CtxThen(heap, handlers, cchains[i], fn), i, fn, FALSE)

DoCtxThenFunc ==
    \E i \in 1..Len(cchains), fn \in {Nil, ctxTestApp} :
        /\ CtxBudget
        /\ CtxResolved(CtxThenFunc(heap, handlers, cchains[i], fn), i, fn, TRUE)

\* One request served, with some context, by a handler that
\* ContextualizedChain.Then or ThenFunc returned.
CtxServe ==
    \E r \in 1..Len(cresolved), ctx \in Contexts :
        /\ cserved' = [r |-> r, ctx |-> ctx]
        /\ ctrace' = ServeHTTPC(heap, handlers, cresolved[r].res, ctx)
        /\ UNCHANGED <<heap, slack, chains, created, handlers, resolved, served,
                       trace, cchains, ccreated, cresolved, bvars, tvars>>

NextContext ==
    \/ DoNewContextualized
    \/ DoCtxAppend
    \/ DoCtxThen
    \/ DoCtxThenFunc
    \/ CtxServe

SpecContext == Init /\ [][NextContext]_vars

----------------------------------------------------------------------------
\* Calls on bridges, next to the calls on chains.

\* A bridge is built from a chain, so a run with a bridge has one call
\* more, of which fewer are calls on chains.
BridgeBudget ==
    /\ Calls < MaxOps + 1
    /\ Len(chains) + Len(resolved) < MaxOps - 1

BridgeBuilt(r, op, recv, args, argv) ==
    /\ heap' = r.heap
    /\ bridges' = Append(bridges, r.b)
    /\ bcreated' = Append(bcreated,
                      [op |-> op, recv |-> recv, args |-> args, argv |-> argv,
                       transformer |-> r.b.transformer,
                       cons |-> Contents(r.heap, r.b.chain.constructors),
                       ends |-> Contents(r.heap, r.b.chain.endwares),
                       ccons |-> Contents(r.heap, r.b.cchain.constructors)])
    /\ UNCHANGED <<slack, chains, created, handlers, resolved, served, trace,
                   cvars, bresolved, bserved, btrace, tvars>>

DoContextualize ==
    \E i \in 1..Len(chains), t \in Transformers :
        /\ BridgeBudget
        /\ BridgeBuilt(Contextualize(heap, chains[i], t), "Contextualize", i, <<t>>, NilSlice)

DoBridgeAppend ==
    \E i \in 1..Len(bridges), x \in CtxArgs :
        /\ BridgeBudget
        /\ LET lit == Literal(heap, x)
           IN BridgeBuilt(BridgeAppend(lit.heap, bridges[i], lit.s), "Append", i, x, lit.s)

BridgeResolved(r, i, fn, func) ==
    /\ handlers' = r.handlers
    /\ bresolved' = Append(bresolved,
                      [bridge |-> i, arg |-> fn, func |-> func, res |-> r.h,
                       seam |-> r.seam, calls |-> r.calls,
                       first |-> Len(handlers) + 1])
    /\ UNCHANGED <<heap, slack, chains, created, resolved, served, trace,
                   cvars, bridges, bcreated, bserved, btrace, tvars>>

DoBridgeThen ==
    \E i \in 1..Len(bridges), fn \in {Nil, ctxTestApp} :
        /\ BridgeBudget
        /\ BridgeResolved(BridgeThen(heap, handlers, bridges[i], fn), i, fn, FALSE)

DoBridgeThenFunc ==
    \E i \in 1..Len(bridges), fn \in {Nil, ctxTestApp} :
        /\ BridgeBudget
        /\ BridgeResolved(BridgeThenFunc(heap, handlers, bridges[i], fn), i, fn, TRUE)

\* One request served by a handler that a bridge's Then or ThenFunc returned.
BridgeServe ==
    \E r \in 1..Len(bresolved) :
        /\ bserved' = r
        /\ btrace' = ServeHTTP(heap, handlers, bresolved[r].res)
        /\ UNCHANGED <<heap, slack, chains, created, handlers, resolved, served,
                       trace, cvars, bridges, bcreated, bresolved, tvars>>

NextBridge ==
    \/ Next
    \/ DoContextualize
    \/ DoBridgeAppend
    \/ DoBridgeThen
    \/ DoBridgeThenFunc
    \/ BridgeServe

SpecBridge == Init /\ [][NextBridge]_vars

----------------------------------------------------------------------------
\* Goroutines calling methods of one Chain at the same time.  A call runs
\* as the steps of its code: one step for each make, each append and each
\* constructor call.  What a goroutine allocates is its own: mem holds its
\* arrays and hs its handler objects, placed after the shared ones.  A call
\* in progress is a list of frames, the first being the method that is
\* running, at step pc, with its argument arg.

\* The calls a goroutine may make on the shared chain.
ConcOps ==
    {[name |-> "Then", x |-> <<>>, h |-> testApp],
     [name |-> "ThenFunc", x |-> <<>>, h |-> Nil],
     [name |-> "Append", x |-> <<"t3">>, h |-> Nil],
     [name |-> "Extend", x |-> <<>>, h |-> Nil],
     [name |-> "After", x |-> <<"e2">>, h |-> Nil],
     [name |-> "AppendEndware", x |-> <<"e2">>, h |-> Nil],
     [name |-> "AppendEndware", x |-> <<"e1">>, h |-> Nil]}

Frame(f, arg) == [f |-> f, pc |-> 0, arg |-> arg]

Goto(th, n) == [th EXCEPT !.todo[1].pc = n]

\* One step of the goroutine th on the arrays v and the handler objects hsv
\* it sees: the goroutine, the arrays and the objects after the step, and
\* the cells of existing arrays the step wrote.
Exec(th, v, hsv) ==
    LET fr == th.todo[1]
        c == th.c
    IN
    CASE fr.f = "After" /\ fr.pc = 0 ->
            \* newEnds := make([]Endware, 0, len(c.endwares)+len(endwares))
            LET m == Make(v, c.endwares.len + fr.arg.len)
            IN [th |-> [Goto(th, 1) EXCEPT !.r = m.s],
                v |-> m.heap, hsv |-> hsv, w |-> {}]
      [] fr.f = "After" /\ fr.pc = 1 ->
            \* newEnds = append(newEnds, c.endwares...)
            LET a == GoAppend(v, th.r, Contents(v, c.endwares))
            IN [th |-> [Goto(th, 2) EXCEPT !.r = a.s],
                v |-> a.heap, hsv |-> hsv, w |-> AppendWrites(th.r, c.endwares.len)]
      [] fr.f = "After" /\ fr.pc = 2 ->
            \* newEnds = append(newEnds, endwares...)
            LET a == GoAppend(v, th.r, Contents(v, fr.arg))
            IN [th |-> [Goto(th, 3) EXCEPT !.r = a.s],
                v |-> a.heap, hsv |-> hsv, w |-> AppendWrites(th.r, fr.arg.len)]
      [] fr.f = "After" /\ fr.pc = 3 ->
            \* newC := New(c.constructors...); newC.endwares = newEnds; return
            LET n == New(v, c.constructors)
            IN [th |-> [th EXCEPT !.c = [constructors |-> n.c.constructors,
                                         endwares |-> th.r],
                                  !.todo = Tail(@)],
                v |-> n.heap, hsv |-> hsv, w |-> {}]
      [] fr.f = "AppendEndware" /\ fr.pc = 0 ->
            \* New(c.constructors...)
            LET n == New(v, c.constructors)
            IN [th |-> [Goto(th, 1) EXCEPT !.d = n.c],
                v |-> n.heap, hsv |-> hsv, w |-> {}]
      [] fr.f = "AppendEndware" /\ fr.pc = 1 ->
            \* append(c.endwares, endwares...), then After on the new chain
            LET a == GoAppend(v, c.endwares, Contents(v, fr.arg))
            IN [th |-> [th EXCEPT !.c = th.d,
                                  !.todo = <<Frame("After", a.s)>> \o Tail(@)],
                v |-> a.heap, hsv |-> hsv, w |-> AppendWrites(c.endwares, fr.arg.len)]
      [] fr.f = "Append" /\ fr.pc = 0 ->
            \* newCons := make([]Constructor, 0, len(c.constructors)+len(constructors))
            LET m == Make(v, c.constructors.len + fr.arg.len)
            IN [th |-> [Goto(th, 1) EXCEPT !.r = m.s],
                v |-> m.heap, hsv |-> hsv, w |-> {}]
      [] fr.f = "Append" /\ fr.pc = 1 ->
            \* newCons = append(newCons, c.constructors...)
            LET a == GoAppend(v, th.r, Contents(v, c.constructors))
            IN [th |-> [Goto(th, 2) EXCEPT !.r = a.s],
                v |-> a.heap, hsv |-> hsv, w |-> AppendWrites(th.r, c.constructors.len)]
      [] fr.f = "Append" /\ fr.pc = 2 ->
            \* newCons = append(newCons, constructors...)
            LET a == GoAppend(v, th.r, Contents(v, fr.arg))
            IN [th |-> [Goto(th, 3) EXCEPT !.r = a.s],
                v |-> a.heap, hsv |-> hsv, w |-> AppendWrites(th.r, fr.arg.len)]
      [] fr.f = "Append" /\ fr.pc = 3 ->
            \* New(newCons...), then AppendEndware(c.endwares...) on it
            LET n == New(v, th.r)
            IN [th |-> [th EXCEPT !.c = n.c,
                                  !.todo = <<Frame("AppendEndware", c.endwares)>>
                                           \o Tail(@)],
                v |-> n.heap, hsv |-> hsv, w |-> {}]
      [] fr.f = "Then" /\ fr.pc = 0 ->
            \* lines 70-76: the default handler for nil, the endwareHandler
            LET h1 == IF fr.arg = Nil THEN DefaultServeMux ELSE fr.arg
                wrap == c.endwares.len > 0
                hs2 == IF wrap
                       THEN Append(hsv, [kind |-> "endwareHandler", tag |-> "",
                                         handler |-> h1, endwares |-> c.endwares])
                       ELSE hsv
            IN [th |-> [Goto(th, 1) EXCEPT !.h = IF wrap THEN Len(hs2) ELSE h1,
                                           !.i = 0],
                v |-> v, hsv |-> hs2, w |-> {}]
      [] fr.f = "Then" /\ fr.pc = 1 /\ th.i < c.constructors.len ->
            \* h = c.constructors[len(c.constructors)-1-i](h)
            LET k == v[c.constructors.ptr][c.constructors.len - 1 - th.i + 1]
                m == Constructor(hsv, k, th.h)
            IN [th |-> [th EXCEPT !.h = m.h, !.i = th.i + 1],
                v |-> v, hsv |-> m.handlers, w |-> {}]
      [] fr.f = "Then" /\ fr.pc = 1 /\ th.i >= c.constructors.len ->
            \* return h
            [th |-> [th EXCEPT !.todo = Tail(@)], v |-> v, hsv |-> hsv, w |-> {}]

\* A goroutine calls a method of the shared chain; the chain is the
\* receiver, passed by value.
ThreadBegin ==
    \E t \in Threads, op \in ConcOps :
        /\ threads[t].pc = "idle"
        /\ LET lit == Literal(heap, op.x)
               c == chains[1]
               todo == CASE op.name \in {"Then", "ThenFunc"} -> <<Frame("Then", op.h)>>
                         [] op.name = "Extend" ->
                                <<Frame("Append", c.constructors),
                                  Frame("AppendEndware", c.endwares)>>
                         [] OTHER -> <<Frame(op.name, lit.s)>>
           IN threads' = [threads EXCEPT ![t] =
                            [Idle EXCEPT !.pc = "run", !.op = op, !.todo = todo,
                                         !.c = c,
                                         !.mem = SubSeq(lit.heap, Len(heap) + 1,
                                                        Len(lit.heap))]]
        /\ UNCHANGED <<heap, slack, chains, created, handlers, resolved, served,
                       trace, cvars, bvars, written, start>>

\* A goroutine runs the next step of its call.
ThreadStep ==
    \E t \in Threads :
        /\ threads[t].pc = "run"
        /\ LET x == Exec(threads[t], heap \o threads[t].mem,
                         handlers \o threads[t].hs)
           IN /\ heap' = SubSeq(x.v, 1, Len(heap))
              /\ written' = written \cup {cell \in x.w : cell[1] <= Len(heap)}
              /\ threads' = [threads EXCEPT ![t] =
                     [x.th EXCEPT !.pc = IF x.th.todo = <<>> THEN "done" ELSE "run",
                                  !.mem = SubSeq(x.v, Len(heap) + 1, Len(x.v)),
                                  !.hs = SubSeq(x.hsv, Len(handlers) + 1, Len(x.hsv))]]
        /\ UNCHANGED <<slack, chains, created, handlers, resolved, served, trace,
                       cvars, bvars, start>>

\* The shared chain, made by New and After before the goroutines start.
InitConcurrent ==
    /\ slack \in GrowSlack
    /\ \E x \in {<<"t1", "t2">>}, e \in EndArgs :
           LET l1 == Literal(<<>>, x)
               n == New(l1.heap, l1.s)
               l2 == Literal(n.heap, e)
               a == After(l2.heap, n.c, l2.s)
           IN /\ heap = a.heap
              /\ start = a.heap
              /\ chains = <<a.c>>
              /\ created = <<Origin("After", 0, 0, e, l2.s, a.heap, a.c)>>
    /\ InitRest

NextConcurrent ==
    \/ ThreadBegin
    \/ ThreadStep

SpecConcurrent == InitConcurrent /\ [][NextConcurrent]_vars

----------------------------------------------------------------------------
\* Extend on chains given beforehand: A, B and C, each made by New and, when
\* it has endwares, After, and the empty chain New().

\* New(x...), then After(e...) when e is not empty.
Operand(hp, x, e) ==
    LET l1 == Literal(hp, x)
        n == New(l1.heap, l1.s)
        l2 == Literal(n.heap, e)
        a == After(l2.heap, n.c, l2.s)
    IN IF Len(e) = 0
       THEN [heap |-> n.heap, c |-> n.c, o |-> Origin("New", 0, 0, x, l1.s, n.heap, n.c)]
       ELSE [heap |-> a.heap, c |-> a.c, o |-> Origin("After", 0, 0, e, l2.s, a.heap, a.c)]

\* The calls made, in order, as <<receiver, argument>> with the chains
\* numbered in the order they come to exist: A, B, C, New(), then
\* A.Extend(B), A.Extend(B).Extend(C), B.Extend(C), A.Extend(B.Extend(C)),
\* A.Extend(New()), New().Extend(A).
Plan == <<<<1, 2>>, <<5, 3>>, <<2, 3>>, <<1, 7>>, <<1, 4>>, <<4, 1>>>>

\* One of the chains A, B and C is made.
DoOperand ==
    \E x \in ConsArgs, e \in EndArgs :
        /\ Len(chains) < 3
        /\ LET r == Operand(heap, x, e)
           IN /\ heap' = r.heap
              /\ chains' = Append(chains, r.c)
              /\ created' = Append(created, r.o)
        /\ UNCHANGED <<slack, handlers, resolved, served, trace, cvars, bvars, tvars>>

\* The empty chain New() is made.
DoEmpty ==
    /\ Len(chains) = 3
    /\ Built(New(heap, NilSlice), "New", 0, 0, <<>>, NilSlice)

\* The next call of the plan.
ExtendNext ==
    LET n == Cardinality({k \in 1..Len(created) : created[k].op = "Extend"}) + 1
    IN /\ Len(chains) > 3
       /\ n <= Len(Plan)
       /\ Built(Extend(heap, chains[Plan[n][1]], chains[Plan[n][2]]),
                "Extend", Plan[n][1], Plan[n][2], <<>>, NilSlice)

NextExtend ==
    \/ DoOperand
    \/ DoEmpty
    \/ ExtendNext

SpecExtend == Init /\ [][NextExtend]_vars

----------------------------------------------------------------------------
\* Vocabulary of the properties.

\* The handler a resolution ends in: the default handler for an absent one.
Terminal(h) == IF h = Nil THEN DefaultServeMux ELSE h

AllCallInner(c) == \A k \in 1..Len(Cons(c)) : Cons(c)[k] # "stop"

Reverse(s) == [k \in 1..Len(s) |-> s[Len(s) + 1 - k]]

\* The tags of the handlers of the given kinds, in the order in which the
\* request entered (ev = "in") or left (ev = "out") them.
Order(tr, ev, kinds) ==
    LET picked(e) == e[1] = ev /\ e[2] \in kinds
        sel == SelectSeq(tr, picked)
    IN [k \in 1..Len(sel) |-> sel[k][3]]

ReachesTerminal(tr) == \E k \in 1..Len(tr) : tr[k][1] = "in" /\ tr[k][2] = "term"

ServedChain == chains[resolved[served].chain]
ServedTerminal == handlers[Terminal(resolved[served].arg)].tag

----------------------------------------------------------------------------
\* C1: when every middleware calls its inner handler, a request served by
\* New(c1..cn).Then(h) enters c1, c2, ..., cn, h in this order and leaves
\* them in the opposite order: the handler behaves as c1(c2(...cn(h))).
C1_ThenOrder ==
    (served # 0 /\ AllCallInner(ServedChain)) =>
        /\ Order(trace, "in", {"mw", "term"}) = Cons(ServedChain) \o <<ServedTerminal>>
        /\ Order(trace, "out", {"mw", "term"}) =
               <<ServedTerminal>> \o Reverse(Cons(ServedChain))

C1_Witness ==
    /\ served # 0
    /\ AllCallInner(ServedChain)
    /\ Len(Cons(ServedChain)) >= 3
    /\ Cons(ServedChain)[1] # Cons(ServedChain)[3]
    /\ Len(trace) > 0

\* C2: a request that reaches the terminal handler h runs h first and then
\* every endware of the chain once, in registration order.
C2_EndwareOrder ==
    (served # 0 /\ ReachesTerminal(trace)) =>
        /\ Order(trace, "in", {"term", "endware"}) =
               <<ServedTerminal>> \o Ends(ServedChain)
        /\ Order(trace, "out", {"term", "endware"}) =
               <<ServedTerminal>> \o Ends(ServedChain)

C2_Witness ==
    /\ served # 0
    /\ ReachesTerminal(trace)
    /\ Len(Ends(ServedChain)) >= 2
    /\ Ends(ServedChain)[1] # Ends(ServedChain)[2]
    /\ Len(Cons(ServedChain)) >= 1

ChainStorage(c) == Storage(c.constructors) \cup Storage(c.endwares)

Unchanged(k) ==
    /\ Cons(chains[k]) = created[k].cons
    /\ Ends(chains[k]) = created[k].ends

\* C4: no operation mutates a chain: every chain holds the sequences it held
\* when it was created, and no two chains share a cell of storage.
C4_Immutable ==
    /\ \A k \in 1..Len(chains) : Unchanged(k)
    /\ \A k \in 1..Len(chains), j \in 1..Len(chains) :
           k # j => ChainStorage(chains[k]) \cap ChainStorage(chains[j]) = {}
    /\ \A k \in 1..Len(chains) :
           Storage(chains[k].constructors) \cap Storage(chains[k].endwares) = {}

C4_Witness ==
    \E k \in 1..Len(chains) :
        /\ created[k].op \in {"Append", "Extend", "After", "AppendEndware"}
        /\ Len(Cons(chains[created[k].recv])) >= 1
        /\ Len(Ends(chains[created[k].recv])) >= 1
        /\ Len(Ends(chains[k])) >= 1
        /\ ChainStorage(chains[k]) # {}

\* C5: c.Append(X) holds c's constructors followed by X and c's endwares,
\* and c holds what it held.
C5_Append ==
    \A k \in 1..Len(chains) :
        created[k].op = "Append" =>
            /\ Cons(chains[k]) = Cons(chains[created[k].recv]) \o created[k].args
            /\ Ends(chains[k]) = Ends(chains[created[k].recv])
            /\ Unchanged(created[k].recv)

C5_Witness ==
    \E k \in 1..Len(chains) :
        /\ created[k].op = "Append"
        /\ Len(created[k].args) >= 2
        /\ Len(Cons(chains[created[k].recv])) >= 1
        /\ Len(Ends(chains[created[k].recv])) >= 1

\* C6: A.Extend(B) holds A's constructors followed by B's and A's endwares
\* followed by B's, the sequences of A.Append(B.constructors...)
\* .AppendEndware(B.endwares...), and A and B hold what they held.
C6_Extend ==
    \A k \in 1..Len(chains) :
        created[k].op = "Extend" =>
            LET A == chains[created[k].recv]
                B == chains[created[k].other]
                ap == ChainAppend(heap, A, B.constructors)
                ae == AppendEndware(ap.heap, ap.c, B.endwares)
            IN /\ Cons(chains[k]) = Cons(A) \o Cons(B)
               /\ Ends(chains[k]) = Ends(A) \o Ends(B)
               /\ Cons(chains[k]) = Contents(ae.heap, ae.c.constructors)
               /\ Ends(chains[k]) = Contents(ae.heap, ae.c.endwares)
               /\ Unchanged(created[k].recv)
               /\ Unchanged(created[k].other)

C6_Witness ==
    \E k \in 1..Len(chains) :
        /\ created[k].op = "Extend"
        /\ created[k].recv # created[k].other
        /\ Len(Cons(chains[created[k].recv])) >= 1
        /\ Len(Cons(chains[created[k].other])) >= 1
        /\ Len(Ends(chains[created[k].other])) >= 1

\* C7: c.AppendEndware(E) and c.After(E) return the same sequences: c's
\* constructors, and c's endwares followed by E.
C7_AppendEndwareIsAfter ==
    \A k \in 1..Len(chains) :
        LET c == chains[created[k].recv]
            E == Literal(heap, created[k].args)
            af == After(E.heap, c, E.s)
        IN /\ created[k].op \in {"AppendEndware", "After"} =>
                  /\ Cons(chains[k]) = Cons(c)
                  /\ Ends(chains[k]) = Ends(c) \o created[k].args
           /\ created[k].op = "AppendEndware" =>
                  /\ Cons(chains[k]) = Contents(af.heap, af.c.constructors)
                  /\ Ends(chains[k]) = Contents(af.heap, af.c.endwares)

C7_Witness ==
    \E k \in 1..Len(chains), j \in 1..Len(chains) :
        /\ created[k].op = "AppendEndware"
        /\ Len(created[k].args) >= 1
        /\ Len(Ends(chains[created[k].recv])) >= 1
        /\ Len(Cons(chains[k])) >= 1
        /\ created[j].op = "After"

\* The structure of a resolved handler: the tags of its middleware from the
\* outermost inwards, and what they wrap.
RECURSIVE Layers(_, _)
Layers(hs, h) ==
    IF h # Nil /\ hs[h].kind = "mw"
    THEN <<hs[h].tag>> \o Layers(hs, hs[h].handler)
    ELSE <<>>

RECURSIVE Core(_, _)
Core(hs, h) ==
    IF h # Nil /\ hs[h].kind = "mw" THEN Core(hs, hs[h].handler) ELSE h

\* What two results have in common when they are the same composition:
\* the middleware, the adapter (if any) with its endwares, and the identity
\* of the terminal handler.
Shape(h) ==
    LET k == Core(handlers, h)
        adapter == k # Nil /\ handlers[k].kind = "endwareHandler"
    IN [layers |-> Layers(handlers, h),
        adapter |-> adapter,
        endwares |-> IF adapter THEN Contents(heap, handlers[k].endwares) ELSE <<>>,
        terminal |-> IF adapter THEN handlers[k].handler ELSE k]

\* The handler objects reachable from h.
RECURSIVE Reach(_, _)
Reach(hs, h) ==
    IF h = Nil THEN {} ELSE {h} \cup Reach(hs, hs[h].handler)

\* The handler objects that resolution r created.
Fresh(r) ==
    resolved[r].first ..
        (IF r < Len(resolved) THEN resolved[r + 1].first - 1 ELSE Len(handlers))

EmptyChain(c) == Len(Cons(c)) = 0 /\ Len(Ends(c)) = 0

\* C8: a chain with no constructors and no endwares resolves to the handler
\* it is given, by identity.
C8_ThenIdentity ==
    \A r \in 1..Len(resolved) :
        (EmptyChain(chains[resolved[r].chain]) /\ resolved[r].arg # Nil)
            => resolved[r].res = resolved[r].arg

C8_Witness ==
    \E r \in 1..Len(resolved) :
        /\ resolved[r].arg = testApp
        /\ ~resolved[r].func
        /\ created[resolved[r].chain].op = "After"
        /\ created[resolved[r].chain].args = <<>>
        /\ EmptyChain(chains[resolved[r].chain])
        /\ resolved[r].res = testApp

\* C9: an absent terminal handler stands for the default handler.  An empty
\* chain resolves nil to DefaultServeMux itself; Then(nil) and ThenFunc(nil)
\* compose what Then(DefaultServeMux) composes, and ThenFunc(fn) composes
\* what Then(fn) composes.
C9_NilIsDefault ==
    /\ \A r \in 1..Len(resolved) :
           /\ Shape(resolved[r].res).terminal = Terminal(resolved[r].arg)
           /\ (EmptyChain(chains[resolved[r].chain]) /\ resolved[r].arg = Nil)
                  => resolved[r].res = DefaultServeMux
    /\ \A r \in 1..Len(resolved), q \in 1..Len(resolved) :
           (/\ resolved[r].chain = resolved[q].chain
            /\ Terminal(resolved[r].arg) = Terminal(resolved[q].arg))
               => Shape(resolved[r].res) = Shape(resolved[q].res)

C9_Witness ==
    \E r \in 1..Len(resolved), q \in 1..Len(resolved) :
        /\ resolved[r].chain = resolved[q].chain
        /\ resolved[r].arg = Nil
        /\ resolved[r].func
        /\ resolved[q].arg = DefaultServeMux
        /\ Len(Cons(chains[resolved[r].chain])) >= 2

\* C10: every resolution invokes each constructor of the chain once, the
\* last-registered first, and leaves the chain as it was; a later resolution
\* wraps its own terminal handler and reaches nothing of an earlier one.
C10_IndependentResolutions ==
    /\ \A r \in 1..Len(resolved) :
           /\ resolved[r].calls = Reverse(Cons(chains[resolved[r].chain]))
           /\ Unchanged(resolved[r].chain)
           /\ Shape(resolved[r].res).terminal = Terminal(resolved[r].arg)
           /\ Shape(resolved[r].res).layers = Cons(chains[resolved[r].chain])
    /\ \A r \in 1..Len(resolved), q \in 1..Len(resolved) :
           r < q =>
               /\ Reach(handlers, resolved[q].res) \cap Fresh(r) = {}
               /\ Terminal(resolved[r].arg) # Terminal(resolved[q].arg)
                      => Terminal(resolved[r].arg) \notin Reach(handlers, resolved[q].res)

C10_Witness ==
    \E r \in 1..Len(resolved), q \in 1..Len(resolved) :
        /\ r < q
        /\ resolved[r].chain = resolved[q].chain
        /\ resolved[r].arg = testApp
        /\ resolved[q].arg = authHandler
        /\ Len(Cons(chains[resolved[r].chain])) >= 2
        /\ Fresh(r) # {}

\* The storage a handler can reach: the backing arrays of the slices held
\* by the handler objects reachable from it.
HandlerStorage(h) ==
    UNION {Storage(handlers[n].endwares) : n \in Reach(handlers, h)}

\* C15 as stated: nothing reachable from the handler Then returns is storage
\* of the chain's constructor sequence or of its endware sequence.
C15_Original ==
    \A r \in 1..Len(resolved) :
        HandlerStorage(resolved[r].res) \cap ChainStorage(chains[resolved[r].chain]) = {}

\* C15 amended: the handler Then returns never reaches the storage of the
\* chain's constructor sequence; of the chain's storage it reaches exactly
\* the array of the endware sequence, which the endwareHandler shares with
\* the chain, and so nothing when the chain has no endwares.
C15_HandlerSharesEndwaresOnly ==
    \A r \in 1..Len(resolved) :
        LET c == chains[resolved[r].chain] IN
        /\ HandlerStorage(resolved[r].res) \cap Storage(c.constructors) = {}
        /\ HandlerStorage(resolved[r].res) =
               (IF Len(Ends(c)) > 0 THEN Storage(c.endwares) ELSE {})

C15_Witness ==
    \E r \in 1..Len(resolved) :
        /\ Len(Ends(chains[resolved[r].chain])) >= 2
        /\ Len(Cons(chains[resolved[r].chain])) >= 2
        /\ HandlerStorage(resolved[r].res) # {}

\* The position of the first middleware of the chain that does not call its
\* inner handler.
FirstStop(c) ==
    CHOOSE i \in 1..Len(Cons(c)) :
        /\ Cons(c)[i] = "stop"
        /\ \A j \in 1..(i - 1) : Cons(c)[j] # "stop"

\* C16: when the middleware at position i does not call its inner handler,
\* the request enters the middleware 1..i once each, in registration order,
\* and no other middleware, nor the terminal handler, nor any endware.
C16_ShortCircuit ==
    (served # 0 /\ ~AllCallInner(ServedChain)) =>
        /\ Order(trace, "in", {"mw", "term", "endware"}) =
               SubSeq(Cons(ServedChain), 1, FirstStop(ServedChain))
        /\ \A k \in 1..Len(trace) : trace[k][2] = "mw"

C16_Witness ==
    /\ served # 0
    /\ ~AllCallInner(ServedChain)
    /\ Len(Ends(ServedChain)) >= 1
    /\ Len(trace) > 0

\* C20: Then creates an endwareHandler exactly when the chain has an
\* endware.  The adapter wraps the terminal handler (the default handler for
\* an absent one) and holds the chain's endwares, so for a chain with no
\* constructors the result is a new handler that serves the terminal
\* handler and then the endwares; with no endwares there is no adapter.
C20_AdapterIffEndwares ==
    /\ \A r \in 1..Len(resolved) :
           LET c == chains[resolved[r].chain]
               s == Shape(resolved[r].res)
           IN /\ s.adapter <=> Len(Ends(c)) >= 1
              /\ s.adapter => (s.terminal = Terminal(resolved[r].arg)
                               /\ s.endwares = Ends(c))
              /\ (Len(Cons(c)) = 0 /\ Len(Ends(c)) >= 1) =>
                     /\ resolved[r].res \in Fresh(r)
                     /\ resolved[r].res \notin {resolved[r].arg, DefaultServeMux}
              /\ Len(Ends(c)) = 0 =>
                     \A n \in Reach(handlers, resolved[r].res) :
                         handlers[n].kind # "endwareHandler"
    /\ (served # 0 /\ Len(Cons(ServedChain)) = 0 /\ Len(Ends(ServedChain)) >= 1) =>
           trace = <<<<"in", "term", ServedTerminal>>, <<"out", "term", ServedTerminal>>>>
                   \o EndwaresServe(heap, ServedChain.endwares, 1)

C20_Witness ==
    /\ served # 0
    /\ resolved[served].arg = Nil
    /\ Len(Cons(ServedChain)) = 0
    /\ Len(Ends(ServedChain)) >= 1
    /\ Shape(resolved[served].res).adapter

\* C14: New(s...) holds the constructors of s in the order of s, and no
\* endwares, in storage of its own: what the caller writes to s after New
\* has returned shows neither in the chain nor in what Then calls.
C14_NewCopies ==
    /\ \A k \in 1..Len(chains) :
           created[k].op = "New" =>
               /\ Cons(chains[k]) = created[k].args
               /\ chains[k].endwares = NilSlice
               /\ Storage(chains[k].constructors) \cap Storage(created[k].argv) = {}
    /\ \A r \in 1..Len(resolved) :
           created[resolved[r].chain].op = "New" =>
               resolved[r].calls = Reverse(created[resolved[r].chain].args)

C14_Witness ==
    \E k \in 1..Len(chains), r \in 1..Len(resolved) :
        /\ created[k].op = "New"
        /\ Len(created[k].args) = 2
        /\ Contents(heap, created[k].argv) = <<"t4", "t4">>
        /\ resolved[r].chain = k
        /\ \E j \in 1..Len(chains) : created[j].args = <<>>

\* The events of a request with context ctx passing through contextualized
\* middleware cons, outermost first, around the events core.
CtxAround(cons, ctx, core) ==
    [k \in 1..Len(cons) |-> <<"in", "cmw", cons[k], ctx>>]
    \o core
    \o [k \in 1..Len(cons) |-> <<"out", "cmw", cons[Len(cons) + 1 - k], ctx>>]

\* What the terminal handler of a contextualized resolution does with a
\* request: the handler given, or for an absent one a handler that drops
\* the context and calls the default handler.
CtxTerminalEvents(arg, ctx) ==
    IF arg = Nil
    THEN <<<<"in", "cdefault", "", ctx>>, <<"in", "term", "mux">>,
           <<"out", "term", "mux">>, <<"out", "cdefault", "", ctx>>>>
    ELSE <<<<"in", "cterm", handlers[arg].tag, ctx>>,
           <<"out", "cterm", handlers[arg].tag, ctx>>>>

\* C18: ContextualizedChain composes as Chain does.  NewContextualized holds
\* its arguments in order; Append returns the receiver's constructors
\* followed by the given ones and no ContextualizedChain ever changes; Then
\* and ThenFunc call the constructors last to first; a request passes
\* through the middleware first to last and back, every layer seeing the
\* context the request was served with; an absent terminal is a handler that
\* drops the context and calls the default handler.
C18_ContextualizedChain ==
    /\ \A k \in 1..Len(cchains) :
           /\ CCons(cchains[k]) = ccreated[k].cons
           /\ ccreated[k].op = "NewContextualized" => ccreated[k].cons = ccreated[k].args
           /\ ccreated[k].op = "Append" =>
                  ccreated[k].cons = ccreated[ccreated[k].recv].cons \o ccreated[k].args
    /\ \A r \in 1..Len(cresolved) :
           cresolved[r].calls = Reverse(CCons(cchains[cresolved[r].chain]))
    /\ cserved.r # 0 =>
           ctrace = CtxAround(CCons(cchains[cresolved[cserved.r].chain]), cserved.ctx,
                              CtxTerminalEvents(cresolved[cserved.r].arg, cserved.ctx))

C18_Witness ==
    /\ cserved.r # 0
    /\ cserved.ctx = "todo"
    /\ cresolved[cserved.r].arg = Nil
    /\ LET k == cresolved[cserved.r].chain IN
           /\ ccreated[k].op = "Append"
           /\ Len(ccreated[k].args) >= 1
           /\ Len(ccreated[ccreated[k].recv].cons) >= 2

\* What a bridge holds.
BCons(b) == Contents(heap, b.chain.constructors)
BCCons(b) == Contents(heap, b.cchain.constructors)

\* C19: Contextualize(T) on a chain gives a bridge with the chain's
\* constructors in order, the transformer T and no context constructors;
\* Append(X) on a bridge gives a bridge with the receiver's context
\* constructors followed by X and the receiver's constructors and
\* transformer; no chain and no bridge changes once created.
C19_BridgePreserves ==
    /\ \A k \in 1..Len(chains) : Unchanged(k)
    /\ \A k \in 1..Len(bridges) :
           /\ BCons(bridges[k]) = bcreated[k].cons
           /\ BCCons(bridges[k]) = bcreated[k].ccons
           /\ bridges[k].transformer = bcreated[k].transformer
           /\ bcreated[k].op = "Contextualize" =>
                  /\ bcreated[k].cons = created[bcreated[k].recv].cons
                  /\ bcreated[k].transformer = bcreated[k].args[1]
                  /\ bcreated[k].ccons = <<>>
           /\ bcreated[k].op = "Append" =>
                  /\ bcreated[k].ccons = bcreated[bcreated[k].recv].ccons \o bcreated[k].args
                  /\ bcreated[k].cons = bcreated[bcreated[k].recv].cons
                  /\ bcreated[k].transformer = bcreated[bcreated[k].recv].transformer

C19_Witness ==
    \E k \in 1..Len(bridges) :
        /\ bcreated[k].op = "Append"
        /\ bcreated[bcreated[k].recv].op = "Append"
        /\ Len(bcreated[bcreated[k].recv].args) >= 1
        /\ Len(bcreated[k].args) >= 1
        /\ Len(bcreated[k].cons) >= 2
        /\ bcreated[k].transformer = "c2d"

\* The chain a bridge was made from, through Contextualize and any Append.
RECURSIVE BridgeRoot(_)
BridgeRoot(k) ==
    IF bcreated[k].op = "Contextualize" THEN bcreated[k].recv
    ELSE BridgeRoot(bcreated[k].recv)

ServedBridge == bresolved[bserved].bridge

BridgeKinds == {"mw", "seam", "cmw", "cterm", "cdefault", "term"}

\* C11: a request served by chain.Contextualize(T).Append(ct1..ctk).Then(term),
\* where every constructor of the chain calls the handler it wraps, enters
\* t1..tn in order, then the transformer's handler, then ct1..ctk in order,
\* then the terminal handler, and leaves them in the opposite order.
C11_BridgeOrder ==
    (bserved # 0 /\ AllCallInner(chains[BridgeRoot(ServedBridge)])) =>
        LET flow == Cons(chains[BridgeRoot(ServedBridge)])
                    \o <<bridges[ServedBridge].transformer>>
                    \o BCCons(bridges[ServedBridge])
                    \o (IF bresolved[bserved].arg = Nil THEN <<"", "mux">>
                        ELSE <<handlers[bresolved[bserved].arg].tag>>)
        IN /\ Order(btrace, "in", BridgeKinds) = flow
           /\ Order(btrace, "out", BridgeKinds) = Reverse(flow)

C11_Witness ==
    /\ bserved # 0
    /\ Cons(chains[BridgeRoot(ServedBridge)]) = <<"t1", "t2">>
    /\ BCCons(bridges[ServedBridge]) = <<"ct1", "ct2">>
    /\ bresolved[bserved].arg = ctxTestApp
    /\ Len(btrace) > 0

\* C12: every resolution of a bridge invokes the transformer exactly once,
\* after all the context constructors and before any constructor of the
\* chain, and every resolution gets a handler of its own from it.
C12_TransformerOncePerResolution ==
    /\ \A r \in 1..Len(bresolved) :
           LET b == bridges[bresolved[r].bridge]
               calls == bresolved[r].calls
               p == Len(BCCons(b)) + 1
           IN /\ Cardinality({q \in 1..Len(calls) : calls[q] \in Transformers}) = 1
              /\ Len(calls) >= p
              /\ calls[p] = b.transformer
              /\ SubSeq(calls, 1, p - 1) = Reverse(BCCons(b))
              /\ SubSeq(calls, p + 1, Len(calls)) = Reverse(BCons(b))
              /\ bresolved[r].seam >= bresolved[r].first
              /\ handlers[bresolved[r].seam].kind = "seam"
    /\ \A r \in 1..Len(bresolved), s \in 1..Len(bresolved) :
           r # s => bresolved[r].seam # bresolved[s].seam
    /\ Cardinality({h \in 1..Len(handlers) : handlers[h].kind = "seam"}) = Len(bresolved)

C12_Witness ==
    \E r \in 1..Len(bresolved), s \in 1..Len(bresolved) :
        /\ r # s
        /\ bresolved[r].bridge = bresolved[s].bridge
        /\ bresolved[r].arg = Nil
        /\ bresolved[s].func
        /\ Len(BCons(bridges[bresolved[r].bridge])) >= 2

RECURSIVE Unfold(_, _, _)
Unfold(hp, hs, h) ==
    IF h = Nil THEN <<>>
    ELSE <<[kind |-> hs[h].kind, tag |-> hs[h].tag,
            ends |-> Contents(hp, hs[h].endwares),
            id |-> IF hs[h].kind = "term" THEN h ELSE 0]>>
         \o Unfold(hp, hs, hs[h].handler)

ChainValue(hp, c) ==
    [cons |-> Contents(hp, c.constructors), ends |-> Contents(hp, c.endwares)]

\* What the call of a goroutine that is done returned.
Returned(t) ==
    LET th == threads[t]
        v == heap \o th.mem
    IN IF th.op.name \in {"Then", "ThenFunc"}
       THEN Unfold(v, handlers \o th.hs, th.h)
       ELSE ChainValue(v, th.c)

\* What the same call returns when nothing else runs.
Alone(op) ==
    LET c == chains[1]
        lit == Literal(start, op.x)
    IN CASE op.name = "Then" ->
                LET r == Then(start, handlers, c, op.h)
                IN Unfold(start, r.handlers, r.h)
         [] op.name = "ThenFunc" ->
                LET r == ThenFunc(start, handlers, c, op.h)
                IN Unfold(start, r.handlers, r.h)
         [] op.name = "Append" ->
                LET r == ChainAppend(lit.heap, c, lit.s) IN ChainValue(r.heap, r.c)
         [] op.name = "Extend" ->
                LET r == Extend(start, c, c) IN ChainValue(r.heap, r.c)
         [] op.name = "After" ->
                LET r == After(lit.heap, c, lit.s) IN ChainValue(r.heap, r.c)
         [] op.name = "AppendEndware" ->
                LET r == AppendEndware(lit.heap, c, lit.s) IN ChainValue(r.heap, r.c)

\* C13: while goroutines call Then, ThenFunc, Append, Extend, After and
\* AppendEndware on one chain, their steps interleaved in any way, no step
\* writes a cell of the chain's arrays, the chain holds what it held, and
\* every call that has returned has returned what it returns when run alone.
C13_ConcurrentCalls ==
    /\ written \cap ChainStorage(chains[1]) = {}
    /\ heap = start
    /\ \A t \in Threads :
           threads[t].pc = "done" => Returned(t) = Alone(threads[t].op)

C13_Witness ==
    /\ Len(Ends(chains[1])) >= 1
    /\ threads[1].pc = "done"
    /\ threads[1].op.name = "AppendEndware"
    /\ threads[2].pc = "run"
    /\ threads[2].op.name = "Extend"
    /\ Len(threads[2].mem) >= 3
    /\ Len(threads[1].mem) >= 3

\* Chain k was made by Extend with receiver i and argument j.
IsExtend(k, i, j) ==
    created[k].op = "Extend" /\ created[k].recv = i /\ created[k].other = j

\* Chain k is (i.Extend(j)).Extend(l) and chain m is i.Extend(j.Extend(l)).
Associated(k, m, i, j, l) ==
    /\ created[k].op = "Extend"
    /\ created[m].op = "Extend"
    /\ IsExtend(created[k].recv, i, j)
    /\ created[k].other = l
    /\ created[m].recv = i
    /\ IsExtend(created[m].other, j, l)

SameSequences(k, m) ==
    Cons(chains[k]) = Cons(chains[m]) /\ Ends(chains[k]) = Ends(chains[m])

\* C21: A.Extend(B).Extend(C) and A.Extend(B.Extend(C)) hold the same
\* constructors and the same endwares, and extending a chain with an empty
\* chain, or an empty chain with a chain, gives the sequences of the chain.
C21_ExtendAssociative ==
    /\ \A k \in 1..Len(chains), m \in 1..Len(chains) :
           (/\ created[k].op = "Extend"
            /\ created[k].recv > 0
            /\ created[created[k].recv].op = "Extend"
            /\ Associated(k, m, created[created[k].recv].recv,
                          created[created[k].recv].other, created[k].other))
               => SameSequences(k, m)
    /\ \A k \in 1..Len(chains) :
           created[k].op = "Extend" =>
               /\ EmptyChain(chains[created[k].other]) => SameSequences(k, created[k].recv)
               /\ EmptyChain(chains[created[k].recv]) => SameSequences(k, created[k].other)

C21_Witness ==
    \E k \in 1..Len(chains), m \in 1..Len(chains), i \in 1..Len(chains) :
        /\ created[k].op = "Extend"
        /\ created[created[k].recv].op = "Extend"
        /\ created[created[k].recv].recv = i
        /\ Associated(k, m, i, created[created[k].recv].other, created[k].other)
        /\ Cons(chains[i]) = <<"t1", "t2">> /\ Ends(chains[i]) = <<"e1">>
        /\ Cons(chains[created[created[k].recv].other]) = <<"t3">>
        /\ Ends(chains[created[created[k].recv].other]) = <<"e2", "e1">>
        /\ Cons(chains[created[k].other]) = <<"stop">>
        /\ Ends(chains[created[k].other]) = <<"e1">>
        /\ \E a \in 1..Len(chains), b \in 1..Len(chains) :
               /\ created[a].op = "Extend" /\ created[a].recv = i
               /\ EmptyChain(chains[created[a].other])
               /\ created[b].op = "Extend" /\ created[b].other = i
               /\ EmptyChain(chains[created[b].recv])

====
